---- MODULE Spec2Model ----
(***************************************************************************)
(* supplier_kit: the supplier capability, the name-keyed registry, the     *)
(* supplier group with its fan-out query, and the registry-to-group        *)
(* helpers.                                                                *)
(*                                                                         *)
(* A handle (Arc<dyn Supplier>) is modelled by the immutable supplier      *)
(* value it points to: the trait only has &self methods, so every holder   *)
(* of a handle sees the same value for the handle's whole life.            *)
(***************************************************************************)
EXTENDS Integers, Sequences, FiniteSets, TLC

VARIABLES
    registry,   \* SupplierRegistry.suppliers: a set of [key, value] entries
    name,       \* BasicSupplierGroup.name
    suppliers,  \* BasicSupplierGroup.suppliers: a sequence of handles
    last        \* the last call made: [op, arg, ret, calls]

vars == <<registry, name, suppliers, last>>

\* ------------------------------------------------------------------ bounds
MaxSuppliers == 3
MaxNames == 3

\* ------------------------------------------------------------- the values
NoDetail == "-"

Timeout == [kind |-> "Timeout", detail |-> NoDetail]
Unauthorized == [kind |-> "Unauthorized", detail |-> NoDetail]
NotFound == [kind |-> "NotFound", detail |-> NoDetail]
Internal(d) == [kind |-> "Internal", detail |-> d]
Upstream(d) == [kind |-> "Upstream", detail |-> d]
InvalidInput(d) == [kind |-> "InvalidInput", detail |-> d]
UnsupportedOperation(d) == [kind |-> "UnsupportedOperation", detail |-> d]

Details == {"boom"}

SupplierError ==
    {Timeout, Unauthorized, NotFound}
    \cup {Internal(d) : d \in Details}
    \cup {Upstream(d) : d \in Details}
    \cup {InvalidInput(d) : d \in Details}
    \cup {UnsupportedOperation(d) : d \in Details}

Search == [variant |-> "Search", other |-> NoDetail]
GetDetail == [variant |-> "GetDetail", other |-> NoDetail]
Other(s) == [variant |-> "Other", other |-> s]

SupplierOperation == {Search, GetDetail, Other("search")}

Params == {"partial", "test"}
MovedOut == "moved"

SupplierRequest(operation, params) == [operation |-> operation, params |-> params]

Requests == {SupplierRequest(o, p) : o \in SupplierOperation, p \in Params}

SupplierResponse(data) == [data |-> data]

Ok(v) == [tag |-> "Ok", value |-> v]
Err(e) == [tag |-> "Err", value |-> e]

Some(v) == [tag |-> "Some", value |-> v]
None == [tag |-> "None", value |-> NoDetail]

\* ------------------------------------------------- the supplier capability
\* The two implementations of the trait the tests define.
MockSupplier(n, should_fail) ==
    [class |-> "MockSupplier", name |-> n, should_fail |-> should_fail,
     error |-> NotFound]

FailingSupplier(n, error) ==
    [class |-> "FailingSupplier", name |-> n, should_fail |-> TRUE,
     error |-> error]

SupplierName(s) == s.name

\* The supplier owns the request it is given; `request` in the result is that
\* copy as the supplier leaves it (the mock moves the params out of it).
SupplierQuery(s, request) ==
    IF s.class = "MockSupplier"
    THEN IF s.should_fail
         THEN [result |-> Err(Internal(s.name \o " failed")), request |-> request]
         ELSE [result |-> Ok(SupplierResponse([echo |-> request.params])),
               request |-> [request EXCEPT !.params = MovedOut]]
    ELSE [result |-> Err(s.error), request |-> request]

SupplierNames == {"s1", "s2", "s3"}

Suppliers ==
    {MockSupplier(n, b) : n \in SupplierNames, b \in BOOLEAN}
    \cup {FailingSupplier("bad_supplier", e) : e \in SupplierError}

RegistrySuppliers ==
    {MockSupplier("s1", FALSE), FailingSupplier("bad_supplier", Timeout)}

\* The keys suppliers are registered under, the names looked up one at a time,
\* and the names a bulk lookup may list.
RegistryKeys == {"s1", "s3"}
LookupNames == {"s1", "s2", "s4"}
AllKeys == RegistryKeys \cup LookupNames
GroupNames == {"group1"}

ArcNew(s) == s
ArcClone(h) == h

\* ------------------------------------------------------------ the registry
\* HashMap<String, Arc<dyn Supplier>>: a set of entries, at most one per key.
Entry(k, v) == [key |-> k, value |-> v]

Keys(map) == {e.key : e \in map}

HashMapNew == {}

HashMapInsertKeepsFirst(map, k, v) ==
    IF k \in Keys(map) THEN map ELSE map \cup {Entry(k, v)}

\* HashMap::insert: the entry of an occupied key is replaced.
HashMapInsert(map, k, v) == {e \in map : e.key # k} \cup {Entry(k, v)}

\* HashMap::get(..).cloned()
HashMapGet(map, k) ==
    IF \E e \in map : e.key = k
    THEN Some(ArcClone((CHOOSE e \in map : e.key = k).value))
    ELSE None

SupplierRegistryNew == HashMapNew

RegistryRegister(map, k, supplier) == HashMapInsert(map, k, ArcNew(supplier))

RegistryGet(map, k) == HashMapGet(map, k)

RegistryAllNamesOfSuppliers(map) ==
    {[i \in DOMAIN es |-> SupplierName(es[i].value)] :
        es \in {f \in [1..Cardinality(map) -> map] :
                   \A i, j \in DOMAIN f : i # j => f[i] # f[j]}}

\* keys().cloned().collect(): every key once, in the map's iteration order,
\* which is any order.
RegistryAllNames(map) ==
    {ns \in [1..Cardinality(Keys(map)) -> Keys(map)] :
        \A i, j \in DOMAIN ns : i # j => ns[i] # ns[j]}

\* --------------------------------------------------------------- the group
BasicSupplierGroupNew(n) == [name |-> n, suppliers |-> <<>>]

Push(vec, x) == Append(vec, x)

RequestClone(request) == request

DispatchAliased(supplier, request) ==
    LET out == SupplierQuery(supplier, request)
    IN  [result |-> out.result, given |-> request, request |-> out.request]

\* supplier.query(request.clone()): the member works on a copy, so the
\* request the loop holds is the same after the call.
Dispatch(supplier, request) ==
    LET given == RequestClone(request)
        out == SupplierQuery(supplier, given)
    IN  [result |-> out.result, given |-> given, request |-> request]

\* The two arms of the match.
RecordSuccessAtFront(successes, supplier, response) ==
    <<<<SupplierName(supplier), response>>>> \o successes

RecordFailureDropped(failures, supplier, e) == failures

RecordFailureTranslated(failures, supplier, e) ==
    Push(failures, <<SupplierName(supplier), Internal(e.kind)>>)

RecordSuccess(successes, supplier, response) ==
    Push(successes, <<SupplierName(supplier), response>>)

RecordFailure(failures, supplier, e) ==
    Push(failures, <<SupplierName(supplier), e>>)

QueryStepRetries(acc, i, supplier) ==
    LET out == Dispatch(supplier, acc.request)
        called == Push(acc.calls, [index |-> i, name |-> SupplierName(supplier),
                                   request |-> out.given])
    IN  IF out.result.tag = "Ok"
        THEN [acc EXCEPT !.successes = RecordSuccess(@, supplier, out.result.value),
                         !.calls = called, !.request = out.request]
        ELSE LET again == Dispatch(supplier, out.request)
             IN  [acc EXCEPT !.failures = RecordFailure(@, supplier, again.result.value),
                             !.calls = Push(called, [index |-> i,
                                                     name |-> SupplierName(supplier),
                                                     request |-> again.given]),
                             !.request = again.request]

\* One iteration of the loop. acc holds the loop's locals (successes,
\* failures, request) and the log of the calls made to the members.
QueryStep(acc, i, supplier) ==
    LET out == Dispatch(supplier, acc.request)
        called == Push(acc.calls, [index |-> i, name |-> SupplierName(supplier),
                                   request |-> out.given])
    IN  IF out.result.tag = "Ok"
        THEN [acc EXCEPT !.successes = RecordSuccess(@, supplier, out.result.value),
                         !.calls = called, !.request = out.request]
        ELSE [acc EXCEPT !.failures = RecordFailure(@, supplier, out.result.value),
                         !.calls = called, !.request = out.request]

RECURSIVE QueryLoopFrom(_, _, _)
QueryLoopFrom(members, i, acc) ==
    IF i > Len(members)
    THEN acc
    ELSE QueryLoopFrom(members, i + 1, QueryStep(acc, i, members[i]))

RECURSIVE QueryLoopUntilFailure(_, _, _)
QueryLoopUntilFailure(members, i, acc) ==
    IF i > Len(members) \/ acc.failures # <<>>
    THEN acc
    ELSE QueryLoopUntilFailure(members, i + 1, QueryStep(acc, i, members[i]))

QueryLoopShortCircuit(members, acc) == QueryLoopUntilFailure(members, 1, acc)

QueryLoop(members, acc) == QueryLoopFrom(members, 1, acc)

GroupQueryAllFailedError(members, request) ==
    LET acc == QueryLoop(members, [successes |-> <<>>, failures |-> <<>>,
                                   calls |-> <<>>, request |-> request])
    IN  IF acc.successes = <<>> /\ members # <<>>
        THEN [ret |-> [type |-> "Err", successes |-> <<>>, failures |-> <<>>],
              calls |-> acc.calls]
        ELSE [ret |-> [type |-> "SupplierGroupResult",
                       successes |-> acc.successes, failures |-> acc.failures],
              calls |-> acc.calls]

GroupQueryEmptyIsError(members, request) ==
    LET acc == QueryLoop(members, [successes |-> <<>>, failures |-> <<>>,
                                   calls |-> <<>>, request |-> request])
    IN  IF members = <<>>
        THEN [ret |-> [type |-> "Err", successes |-> <<>>, failures |-> <<>>],
              calls |-> acc.calls]
        ELSE [ret |-> [type |-> "SupplierGroupResult",
                       successes |-> acc.successes, failures |-> acc.failures],
              calls |-> acc.calls]

GroupQuery(members, request) ==
    LET acc == QueryLoop(members, [successes |-> <<>>, failures |-> <<>>,
                                   calls |-> <<>>, request |-> request])
    IN  [ret |-> [type |-> "SupplierGroupResult", successes |-> acc.successes,
                  failures |-> acc.failures],
         calls |-> acc.calls]

\* ------------------------------------------------------------- the helpers
AddSupplierFromRegistryFnSilent(members, map, k) ==
    LET found == RegistryGet(map, k)
    IN  IF found.tag = "Some"
        THEN [suppliers |-> Push(members, ArcClone(found.value)), ret |-> Ok(<<>>)]
        ELSE [suppliers |-> members, ret |-> Ok(<<>>)]

AddSupplierFromRegistryFn(members, map, k) ==
    LET found == RegistryGet(map, k)
    IN  IF found.tag = "Some"
        THEN [suppliers |-> Push(members, ArcClone(found.value)), ret |-> Ok(<<>>)]
        ELSE [suppliers |-> members, ret |-> Err(NotFound)]

AddSuppliersStepKeyed(acc, map, k) ==
    LET found == RegistryGet(map, k)
    IN  IF found.tag = "Some"
        THEN [acc EXCEPT !.suppliers = Push(@, [found.value EXCEPT !.name = k])]
        ELSE [acc EXCEPT !.failures = Push(@, <<k, NotFound>>)]

AddSuppliersStep(acc, map, k) ==
    LET found == RegistryGet(map, k)
    IN  IF found.tag = "Some"
        THEN [acc EXCEPT !.suppliers = Push(@, ArcClone(found.value))]
        ELSE [acc EXCEPT !.failures = Push(@, <<k, NotFound>>)]

RECURSIVE AddSuppliersLoopStopsAtMiss(_, _, _, _)
AddSuppliersLoopStopsAtMiss(names, i, map, acc) ==
    IF i > Len(names) \/ acc.failures # <<>>
    THEN acc
    ELSE AddSuppliersLoopStopsAtMiss(names, i + 1, map,
                                     AddSuppliersStep(acc, map, names[i]))

RECURSIVE AddSuppliersLoop(_, _, _, _)
AddSuppliersLoop(names, i, map, acc) ==
    IF i > Len(names)
    THEN acc
    ELSE AddSuppliersLoop(names, i + 1, map, AddSuppliersStep(acc, map, names[i]))

AddSuppliersFromRegistryFn(members, map, names) ==
    LET acc == AddSuppliersLoop(names, 1, map,
                                [suppliers |-> members, failures |-> <<>>])
    IN  [suppliers |-> acc.suppliers, ret |-> acc.failures]

\* -------------------------------------------------------------- the system
\* A call: the operation, its argument, what it returned, and the log of the
\* calls it made in turn (a query's calls of its members, a register's insert
\* with the entry it displaced).
Call(op, arg, ret, calls) == [op |-> op, arg |-> arg, ret |-> ret, calls |-> calls]

Unit == <<>>

Init ==
    /\ registry = SupplierRegistryNew
    /\ \E n \in GroupNames :
         /\ name = BasicSupplierGroupNew(n).name
         /\ suppliers = BasicSupplierGroupNew(n).suppliers
         /\ last = Call("new", n, Unit, <<>>)

AddSupplierDedup(supplier) ==
    /\ Len(suppliers) < MaxSuppliers
    /\ suppliers' = IF \E i \in DOMAIN suppliers :
                          SupplierName(suppliers[i]) = SupplierName(supplier)
                    THEN suppliers
                    ELSE Push(suppliers, ArcNew(supplier))
    /\ last' = Call("add_supplier", supplier, Unit, <<>>)
    /\ UNCHANGED <<registry, name>>

AddSupplier(supplier) ==
    /\ Len(suppliers) < MaxSuppliers
    /\ suppliers' = Push(suppliers, ArcNew(supplier))
    /\ last' = Call("add_supplier", supplier, Unit, <<>>)
    /\ UNCHANGED <<registry, name>>

AddSupplierArc(handle) ==
    /\ Len(suppliers) < MaxSuppliers
    /\ suppliers' = Push(suppliers, handle)
    /\ last' = Call("add_supplier_arc", handle, Unit, <<>>)
    /\ UNCHANGED <<registry, name>>

GroupNameCall ==
    /\ last' = Call("group_name", Unit, name, <<>>)
    /\ UNCHANGED <<registry, name, suppliers>>

QueryEvictsFailing(request) ==
    /\ LET out == GroupQuery(suppliers, request)
       IN  /\ last' = Call("query", request, out.ret, out.calls)
           /\ suppliers' = SelectSeq(suppliers,
                  LAMBDA s : SupplierQuery(s, request).result.tag = "Ok")
    /\ UNCHANGED <<registry, name>>

Query(request) ==
    /\ LET out == GroupQuery(suppliers, request)
       IN  last' = Call("query", request, out.ret, out.calls)
    /\ UNCHANGED <<registry, name, suppliers>>

RegisterInPlace(k, supplier) ==
    /\ registry' = RegistryRegister(registry, k, supplier)
    /\ last' = Call("register", <<k, supplier>>, Unit,
                    <<[op |-> "insert", replaced |-> HashMapGet(registry, k)]>>)
    /\ suppliers' = [i \in DOMAIN suppliers |->
                       IF HashMapGet(registry, k) = Some(suppliers[i])
                       THEN ArcNew(supplier)
                       ELSE suppliers[i]]
    /\ UNCHANGED name

Register(k, supplier) ==
    /\ registry' = RegistryRegister(registry, k, supplier)
    /\ last' = Call("register", <<k, supplier>>, Unit,
                    <<[op |-> "insert", replaced |-> HashMapGet(registry, k)]>>)
    /\ UNCHANGED <<name, suppliers>>

GetTakes(k) ==
    /\ last' = Call("get", k, RegistryGet(registry, k), <<>>)
    /\ registry' = {e \in registry : e.key # k}
    /\ UNCHANGED <<name, suppliers>>

Get(k) ==
    /\ last' = Call("get", k, RegistryGet(registry, k), <<>>)
    /\ UNCHANGED <<registry, name, suppliers>>

AllNames ==
    /\ \E ns \in RegistryAllNames(registry) :
         last' = Call("all_names", Unit, ns, <<>>)
    /\ UNCHANGED <<registry, name, suppliers>>

AddSupplierFromRegistry(k) ==
    /\ LET out == AddSupplierFromRegistryFn(suppliers, registry, k)
       IN  /\ Len(out.suppliers) <= MaxSuppliers
           /\ suppliers' = out.suppliers
           /\ last' = Call("add_supplier_from_registry", k, out.ret, <<>>)
    /\ UNCHANGED <<registry, name>>

AddSuppliersFromRegistry(names) ==
    /\ LET out == AddSuppliersFromRegistryFn(suppliers, registry, names)
       IN  /\ Len(out.suppliers) <= MaxSuppliers
           /\ suppliers' = out.suppliers
           /\ last' = Call("add_suppliers_from_registry", names, out.ret, <<>>)
    /\ UNCHANGED <<registry, name>>

NameLists == UNION {[1..n -> LookupNames] : n \in 0..MaxNames}

\* A group built and queried directly, over every supplier implementation.
Next ==
    \/ \E s \in Suppliers : AddSupplier(s)
    \/ \E s \in Suppliers : AddSupplierArc(ArcNew(s))
    \/ \E r \in Requests : Query(r)
    \/ GroupNameCall

Spec == Init /\ [][Next]_vars

\* A registry, and a group filled from it through the helpers.
NextRegistry ==
    \/ \E k \in RegistryKeys, s \in RegistrySuppliers : Register(k, s)
    \/ \E k \in AllKeys : Get(k)
    \/ AllNames
    \/ \E k \in AllKeys : AddSupplierFromRegistry(k)
    \/ \E names \in NameLists : AddSuppliersFromRegistry(names)
    \/ \E s \in RegistrySuppliers : AddSupplier(s)
    \/ \E s \in RegistrySuppliers : AddSupplierArc(ArcNew(s))
    \/ \E r \in Requests : Query(r)
    \/ GroupNameCall

SpecRegistry == Init /\ [][NextRegistry]_vars

\* ------------------------------------------------- properties of the query
LastQuery == last.op = "query"

\* What member i answers to the request of the last query.
Answer(i) == SupplierQuery(suppliers[i], last.arg).result

Failing == {i \in DOMAIN suppliers : Answer(i).tag = "Err"}
Succeeding == {i \in DOMAIN suppliers : Answer(i).tag = "Ok"}

FirstOf(pairs) == [j \in DOMAIN pairs |-> pairs[j][1]]

Occurrences(seq, x) == Cardinality({j \in DOMAIN seq : seq[j] = x})

MemberNames == {SupplierName(s) : s \in Suppliers}

\* The members of a set of positions, in member order, each as the pair the
\* result should hold for it.
RECURSIVE Outcomes(_, _)
Outcomes(i, positions) ==
    IF i > Len(suppliers)
    THEN <<>>
    ELSE (IF i \in positions
          THEN <<<<SupplierName(suppliers[i]), Answer(i).value>>>>
          ELSE <<>>) \o Outcomes(i + 1, positions)

\* C1: after a query of a group with N members the result holds N entries:
\* len(successes) + len(failures) = N.
PartitionCompleteness ==
    LastQuery =>
        Len(last.ret.successes) + Len(last.ret.failures) = Len(suppliers)

PartitionWitness ==
    /\ LastQuery
    /\ Len(suppliers) = MaxSuppliers
    /\ last.ret.successes # <<>>
    /\ last.ret.failures # <<>>

\* C2: the failures hold exactly the names of the members whose query returned
\* an error (each as often as such a member bears it) and the successes exactly
\* the names of the others, wherever the failing members stand.
NoShortCircuit ==
    LastQuery =>
        \A n \in MemberNames :
            /\ Occurrences(FirstOf(last.ret.failures), n)
                 = Cardinality({i \in Failing : SupplierName(suppliers[i]) = n})
            /\ Occurrences(FirstOf(last.ret.successes), n)
                 = Cardinality({i \in Succeeding : SupplierName(suppliers[i]) = n})

NoShortCircuitWitness ==
    /\ LastQuery
    /\ Len(suppliers) = 3
    /\ Failing = {1, 2}
    /\ Succeeding = {3}

\* C3: the successes are the succeeding members' names in member order and
\* the failures the failing members' names in member order.
OrderPreservation ==
    LastQuery =>
        /\ FirstOf(last.ret.successes) = FirstOf(Outcomes(1, Succeeding))
        /\ FirstOf(last.ret.failures) = FirstOf(Outcomes(1, Failing))

OrderWitness ==
    /\ LastQuery
    /\ Len(suppliers) = 3
    /\ Failing = {}
    /\ FirstOf(last.ret.successes) = <<"s1", "s2", "s3">>

\* C4: one query calls every member exactly once, in member order, whatever
\* the earlier members answered.
EveryMemberCalledInOrder ==
    LastQuery =>
        /\ Len(last.calls) = Len(suppliers)
        /\ \A i \in DOMAIN last.calls :
              /\ last.calls[i].index = i
              /\ last.calls[i].name = SupplierName(suppliers[i])

CalledAfterFailureWitness ==
    /\ LastQuery
    /\ Len(suppliers) = 3
    /\ 1 \in Failing
    /\ Len(last.calls) = 3

\* C5: every member is handed a request equal to the caller's, whatever the
\* members before it did with theirs.
IndependentRequestCopy ==
    LastQuery =>
        \A i \in DOMAIN last.calls : last.calls[i].request = last.arg

IndependentCopyWitness ==
    /\ LastQuery
    /\ Len(suppliers) >= 2
    /\ SupplierQuery(suppliers[1], last.arg).request # last.arg
    /\ Len(last.calls) >= 2

\* C6: the failures hold, for each failing member, its name with the very
\* error it returned (kind and detail), and the successes each succeeding
\* member's name with the very response it returned.
VerbatimPropagation ==
    LastQuery =>
        /\ last.ret.failures = Outcomes(1, Failing)
        /\ last.ret.successes = Outcomes(1, Succeeding)

VerbatimWitness ==
    /\ LastQuery
    /\ Len(last.ret.failures) = 3
    /\ last.ret.failures[1][2] = Internal("s2 failed")
    /\ last.ret.failures[2][2] = Timeout
    /\ last.ret.failures[3][2] = UnsupportedOperation("boom")

\* C7: a query never ends in an error of its own; when every member of a
\* non-empty group fails it returns no success and one failure per member.
NoAggregateError ==
    LastQuery =>
        /\ last.ret.type = "SupplierGroupResult"
        /\ (suppliers # <<>> /\ Succeeding = {}) =>
              /\ last.ret.successes = <<>>
              /\ Len(last.ret.failures) = Len(suppliers)

AllFailedWitness ==
    /\ LastQuery
    /\ Len(suppliers) = 2
    /\ Succeeding = {}
    /\ Len(last.ret.failures) = 2

\* C8: a new group has no member, and the query of a group without members
\* returns no success and no failure, as a normal result.
EmptyGroupQuery ==
    /\ last.op = "new" => suppliers = <<>>
    /\ (LastQuery /\ suppliers = <<>>) =>
          last.ret = [type |-> "SupplierGroupResult", successes |-> <<>>,
                      failures |-> <<>>]

EmptyGroupWitness ==
    /\ LastQuery
    /\ suppliers = <<>>
    /\ last.ret.successes = <<>>
    /\ last.ret.failures = <<>>

\* ------------------------------------- properties of registry and helpers
EntriesOf(map, k) == {e \in map : e.key = k}

\* C9: a register under k leaves exactly one entry for k, bound to the
\* supplier just registered, leaves every other key as it was, and grows the
\* registry by one key if k was new and by none if it was not; no other call
\* changes the registry, and a get returns the supplier its key is bound to.
RegistryReplaceSemantics ==
    [][/\ last'.op = "register" =>
            LET k == last'.arg[1]
                s == last'.arg[2]
            IN  /\ EntriesOf(registry', k) = {Entry(k, s)}
                /\ registry' \ EntriesOf(registry', k)
                     = registry \ EntriesOf(registry, k)
                /\ Cardinality(registry')
                     = Cardinality(registry)
                       + (IF EntriesOf(registry, k) = {} THEN 1 ELSE 0)
       /\ last'.op # "register" => registry' = registry
       /\ last'.op = "get" =>
            /\ last'.ret.tag = "Some"
                 => EntriesOf(registry', last'.arg)
                      = {Entry(last'.arg, last'.ret.value)}
            /\ last'.ret.tag = "None" => EntriesOf(registry', last'.arg) = {}
      ]_vars

RegistryReplaceWitness ==
    /\ last.op = "register"
    /\ last.calls[1].replaced.tag = "Some"
    /\ last.calls[1].replaced.value # last.arg[2]
    /\ Cardinality(registry) = 2

\* C10: a bulk lookup appends to the group the handle of each requested name
\* that is registered, in requested order, and returns the requested names
\* that are not registered, each with NotFound, in requested order.
Registered(names, map) == SelectSeq(names, LAMBDA n : EntriesOf(map, n) # {})
Unregistered(names, map) == SelectSeq(names, LAMBDA n : EntriesOf(map, n) = {})

LookupHelperReporting ==
    [][last'.op = "add_suppliers_from_registry" =>
            LET found == Registered(last'.arg, registry)
                missing == Unregistered(last'.arg, registry)
            IN  /\ suppliers'
                     = suppliers
                       \o [i \in DOMAIN found |->
                             (CHOOSE e \in registry : e.key = found[i]).value]
                /\ last'.ret = [i \in DOMAIN missing |-> <<missing[i], NotFound>>]
                /\ registry' = registry
      ]_vars

LookupHelperWitness ==
    /\ last.op = "add_suppliers_from_registry"
    /\ last.arg = <<"s1", "s2", "s4">>
    /\ Keys(registry) = {"s1", "s3"}
    /\ last.ret = << <<"s2", NotFound>>, <<"s4", NotFound>> >>
    /\ suppliers = <<(CHOOSE e \in registry : e.key = "s1").value>>

\* C11: a single lookup of a registered name appends that name's handle to
\* the end of the group and returns Ok(()); of an unregistered name it
\* returns Err(NotFound) and leaves the members as they were; the registry is
\* the same after either.
SingleLookupHelper ==
    [][last'.op = "add_supplier_from_registry" =>
            /\ registry' = registry
            /\ EntriesOf(registry, last'.arg) # {} =>
                  /\ last'.ret = Ok(Unit)
                  /\ Len(suppliers') = Len(suppliers) + 1
                  /\ SubSeq(suppliers', 1, Len(suppliers)) = suppliers
                  /\ EntriesOf(registry, last'.arg)
                       = {Entry(last'.arg, suppliers'[Len(suppliers')])}
            /\ EntriesOf(registry, last'.arg) = {} =>
                  /\ last'.ret = Err(NotFound)
                  /\ suppliers' = suppliers
      ]_vars

SingleLookupMissWitness ==
    /\ last.op = "add_supplier_from_registry"
    /\ last.arg = "s3"
    /\ Keys(registry) = {"s1"}
    /\ last.ret = Err(NotFound)
    /\ Len(suppliers) = 2

\* C12: a get returns None when its name is not registered and the handle
\* bound to the name when it is, and leaves the registry as it was.
GetIsPureLookup ==
    [][last'.op = "get" =>
            /\ registry' = registry
            /\ EntriesOf(registry, last'.arg) = {} => last'.ret = None
            /\ EntriesOf(registry, last'.arg) # {} =>
                  /\ last'.ret.tag = "Some"
                  /\ Entry(last'.arg, last'.ret.value) \in registry
      ]_vars

GetWitness ==
    /\ last.op = "get"
    /\ last.arg = "s3"
    /\ last.ret = Some(FailingSupplier("bad_supplier", Timeout))
    /\ Cardinality(registry) = 2

\* C13: a register leaves the group's members as they were, also those copied
\* out of the registry under the name now replaced, and so leaves the result
\* of every query of the group as it was.
IssuedHandlesIndependent ==
    [][last'.op = "register" =>
            /\ suppliers' = suppliers
            /\ \A r \in Requests :
                  GroupQuery(suppliers', r).ret = GroupQuery(suppliers, r).ret
      ]_vars

IssuedHandleWitness ==
    /\ last.op = "register"
    /\ last.calls[1].replaced.tag = "Some"
    /\ last.calls[1].replaced.value # last.arg[2]
    /\ \E i \in DOMAIN suppliers : suppliers[i] = last.calls[1].replaced.value

\* C17: add_supplier and add_supplier_arc return nothing and append their
\* argument at the end of the members, whatever the members already are, and
\* a query reports each name once for every member that bears it.
GroupsDoNotDeduplicate ==
    [][/\ last'.op \in {"add_supplier", "add_supplier_arc"} =>
            /\ suppliers' = suppliers \o <<last'.arg>>
            /\ last'.ret = Unit
       /\ last'.op = "query" =>
            \A n \in MemberNames :
                Occurrences(FirstOf(last'.ret.successes), n)
                + Occurrences(FirstOf(last'.ret.failures), n)
                  = Cardinality({i \in DOMAIN suppliers' :
                                    SupplierName(suppliers'[i]) = n})
      ]_vars

DuplicateMembersWitness ==
    /\ LastQuery
    /\ Len(suppliers) = 3
    /\ suppliers[1] = suppliers[3]
    /\ \A i \in DOMAIN suppliers : SupplierName(suppliers[i]) = "s1"
    /\ FirstOf(last.ret.successes) = <<"s1", "s1">>
    /\ FirstOf(last.ret.failures) = <<"s1">>

\* C18: all_names returns every registered key exactly once and nothing
\* else, in some order, and leaves the registry as it was.
AllNamesSnapshot ==
    [][last'.op = "all_names" =>
            /\ registry' = registry
            /\ Len(last'.ret) = Cardinality(Keys(registry))
            /\ {last'.ret[i] : i \in DOMAIN last'.ret} = Keys(registry)
      ]_vars

AllNamesWitness ==
    /\ last.op = "all_names"
    /\ last.ret = <<"s3", "s1">>
    /\ Entry("s1", FailingSupplier("bad_supplier", Timeout)) \in registry

\* C19: every call leaves the former members as a prefix of the members and
\* the group's name as it was; query and group_name leave the members as they
\* were, group_name returns the name, and a query repeated with the same
\* request returns the same result.
AppendOnlyStatelessQuery ==
    [][/\ Len(suppliers) <= Len(suppliers')
       /\ SubSeq(suppliers', 1, Len(suppliers)) = suppliers
       /\ name' = name
       /\ last'.op \in {"query", "group_name"} => suppliers' = suppliers
       /\ last'.op = "group_name" => last'.ret = name
       /\ (last.op = "query" /\ last'.op = "query" /\ last'.arg = last.arg)
            => last'.ret = last.ret
       /\ last'.op = "query"
            => GroupQuery(suppliers', last'.arg).ret = last'.ret
      ]_vars

QueryAfterGrowthWitness ==
    /\ LastQuery
    /\ Len(suppliers) = 3
    /\ last.ret.failures # <<>>
    /\ last.ret.successes # <<>>
    /\ registry # {}

\* C20: a query labels each outcome with the member's own name, a member
\* taken from the registry bears the name of the supplier registered, not the
\* key it was asked for, and a failed bulk lookup is labelled with the
\* requested key.
LabelIsSupplierName ==
    /\ LastQuery =>
          /\ FirstOf(last.ret.successes)
               = [j \in DOMAIN last.ret.successes |->
                    SupplierName(SelectSeq(suppliers,
                        LAMBDA s : SupplierQuery(s, last.arg).result.tag = "Ok")[j])]
          /\ FirstOf(last.ret.failures)
               = [j \in DOMAIN last.ret.failures |->
                    SupplierName(SelectSeq(suppliers,
                        LAMBDA s : SupplierQuery(s, last.arg).result.tag = "Err")[j])]
    /\ last.op = "add_suppliers_from_registry" =>
          LET found == Registered(last.arg, registry)
              before == Len(suppliers) - Len(found)
          IN  /\ FirstOf(last.ret) = Unregistered(last.arg, registry)
              /\ before >= 0
              /\ \A i \in DOMAIN found :
                    SupplierName(suppliers[before + i])
                      = SupplierName((CHOOSE e \in registry : e.key = found[i]).value)

LabelWitness ==
    /\ LastQuery
    /\ Entry("s1", FailingSupplier("bad_supplier", Timeout)) \in registry
    /\ suppliers = <<FailingSupplier("bad_supplier", Timeout)>>
    /\ last.ret.failures = << <<"bad_supplier", Timeout>> >>

\* ------------------------------------------------- the operation's names
\* The name of an Other operation that normalize works on is a sequence of
\* characters, each a one-character string; "U+00C9" and "U+00A0" stand for
\* the single characters of those code points (an upper-case letter and a
\* white space outside ASCII).
MaxLen == 3

AsciiUppercase == <<"A", "B", "C", "D", "E", "F", "G", "H", "I", "J", "K", "L", "M", "N", "O", "P", "Q", "R", "S", "T", "U", "V", "W", "X", "Y", "Z">>
AsciiLowercase == <<"a", "b", "c", "d", "e", "f", "g", "h", "i", "j", "k", "l", "m", "n", "o", "p", "q", "r", "s", "t", "u", "v", "w", "x", "y", "z">>

Whitespace == {" ", "\t", "\n", "\r", "U+00A0"}
Separators == {" ", "-", "/"}
Alphabet == {"A", "a", " ", "-", "/", "_", "\t", "U+00C9"}

StrSearch == <<"s", "e", "a", "r", "c", "h">>
StrGetDetail == <<"g", "e", "t", "_", "d", "e", "t", "a", "i", "l">>
SubmitTransactionRaw == <<"S", "u", "b", "m", "i", "t", " ", "T", "r", "a", "n", "s", "a", "c", "t", "i", "o", "n">>
SubmitTransactionNorm == <<"s", "u", "b", "m", "i", "t", "_", "t", "r", "a", "n", "s", "a", "c", "t", "i", "o", "n">>
CancelOrderRaw == <<"c", "a", "n", "c", "e", "l", "-", "o", "r", "d", "e", "r">>
CancelOrderNorm == <<"c", "a", "n", "c", "e", "l", "_", "o", "r", "d", "e", "r">>
CheckStatusRaw == <<" ", "c", "h", "e", "c", "k", "/", "s", "t", "a", "t", "u", "s", " ">>
CheckStatusNorm == <<"c", "h", "e", "c", "k", "_", "s", "t", "a", "t", "u", "s">>

ExampleNames == {SubmitTransactionRaw, CancelOrderRaw, CheckStatusRaw}
BoundedNames == UNION {[1..n -> Alphabet] : n \in 0..MaxLen}
OperationNames == BoundedNames \cup ExampleNames

\* str::trim
RECURSIVE TrimStart(_)
TrimStart(s) ==
    IF s # <<>> /\ Head(s) \in Whitespace THEN TrimStart(Tail(s)) ELSE s

RECURSIVE TrimEnd(_)
TrimEnd(s) ==
    IF s # <<>> /\ s[Len(s)] \in Whitespace
    THEN TrimEnd(SubSeq(s, 1, Len(s) - 1))
    ELSE s

Trim(s) == TrimEnd(TrimStart(s))

\* str::to_ascii_lowercase
CharToAsciiLowercase(c) ==
    IF \E i \in DOMAIN AsciiUppercase : AsciiUppercase[i] = c
    THEN AsciiLowercase[CHOOSE i \in DOMAIN AsciiUppercase : AsciiUppercase[i] = c]
    ELSE c

ToAsciiLowercase(s) == [i \in DOMAIN s |-> CharToAsciiLowercase(s[i])]

\* str::replace(chars, "_")
Replace(s, chars, to) == [i \in DOMAIN s |-> IF s[i] \in chars THEN to ELSE s[i]]

AsStr(op) ==
    IF op.variant = "Search" THEN StrSearch
    ELSE IF op.variant = "GetDetail" THEN StrGetDetail
    ELSE op.other

NormalizeViaAsStr(op) ==
    Other(Replace(ToAsciiLowercase(Trim(AsStr(op))), Separators, "_"))

NormalizeReplacesBeforeTrim(op) ==
    IF op.variant = "Other"
    THEN Other(Trim(Replace(ToAsciiLowercase(op.other), Separators, "_")))
    ELSE op

Normalize(op) ==
    IF op.variant = "Other"
    THEN Other(Replace(ToAsciiLowercase(Trim(op.other)), Separators, "_"))
    ELSE op

\* ------------------------------------------------------- the wire shape
\* A JSON document; an object's members are a function from its keys.
JNull == [t |-> "null", v |-> Unit]
JString(s) == [t |-> "string", v |-> s]
JNumber(n) == [t |-> "number", v |-> n]
JArray(items) == [t |-> "array", v |-> items]
JObject(members) == [t |-> "object", v |-> members]

SerializeOperationUntagged(op) ==
    IF op.variant = "Search" THEN JString("search")
    ELSE IF op.variant = "GetDetail" THEN JString("get_detail")
    ELSE JString(op.other)

\* derive(Serialize), rename_all = "snake_case": a unit variant is its name,
\* a newtype variant an object of one member named after it.
SerializeOperation(op) ==
    IF op.variant = "Search" THEN JString("search")
    ELSE IF op.variant = "GetDetail" THEN JString("get_detail")
    ELSE JObject([other |-> JString(op.other)])

\* derive(Deserialize) of the enum.
DeserializeOperation(w) ==
    IF w.t = "string"
    THEN IF w.v = "search" THEN Ok(Search)
         ELSE IF w.v = "get_detail" THEN Ok(GetDetail)
         ELSE IF w.v = "other" THEN Err("invalid type")
         ELSE Err("unknown variant")
    ELSE IF w.t = "object"
    THEN IF DOMAIN w.v = {"other"}
         THEN IF w.v["other"].t = "string"
              THEN Ok(Other(w.v["other"].v))
              ELSE Err("invalid type")
         ELSE IF DOMAIN w.v = {"search"}
         THEN IF w.v["search"].t = "null" THEN Ok(Search) ELSE Err("invalid type")
         ELSE IF DOMAIN w.v = {"get_detail"}
         THEN IF w.v["get_detail"].t = "null" THEN Ok(GetDetail)
              ELSE Err("invalid type")
         ELSE Err("unknown variant")
    ELSE Err("invalid type")

\* derive(Serialize) of the struct; a serde_json Value is its own document.
SerializeRequest(r) ==
    JObject([operation |-> SerializeOperation(r.operation), params |-> r.params])

\* derive(Deserialize) of the struct.
DeserializeRequest(w) ==
    IF w.t # "object" THEN Err("invalid type")
    ELSE IF "operation" \notin DOMAIN w.v THEN Err("missing field")
    ELSE IF "params" \notin DOMAIN w.v THEN Err("missing field")
    ELSE LET operation == DeserializeOperation(w.v["operation"])
         IN  IF operation.tag = "Err"
             THEN operation
             ELSE Ok(SupplierRequest(operation.value, w.v["params"]))

JsonDocs ==
    <<JNull, JString("baju"), JNumber(1), JArray(<<JString("baju"), JNull>>),
      JObject([keyword |-> JString("baju")])>>

SerdeOperations ==
    {Search, GetDetail, Other("search"), Other("get_detail"), Other("other"),
     Other("sync_inventory")}

\* Documents a caller may hand to the parser that no request serializes to.
WireInputs ==
    <<JObject([operation |-> JString("sync_inventory"), params |-> JNull]),
      JObject([operation |-> JString("other"), params |-> JNull]),
      JObject([operation |-> JNull, params |-> JNull]),
      JObject([operation |-> JObject([search |-> JNull]), params |-> JNull]),
      JObject([operation |-> JString("search")]),
      JString("search")>>

InitModels ==
    /\ registry = SupplierRegistryNew
    /\ \E n \in GroupNames :
         /\ name = BasicSupplierGroupNew(n).name
         /\ suppliers = BasicSupplierGroupNew(n).suppliers
    /\ \/ \E op \in {Search, GetDetail} : last = Call("operation", Unit, op, <<>>)
       \/ \E s \in OperationNames : last = Call("operation", Unit, Other(s), <<>>)
       \/ \E o \in SerdeOperations, i \in DOMAIN JsonDocs :
            last = Call("request", Unit, SupplierRequest(o, JsonDocs[i]), <<>>)
       \/ \E i \in DOMAIN WireInputs : last = Call("wire", Unit, WireInputs[i], <<>>)

\* normalize, of an operation at hand or of the one normalize just returned.
NormalizeCall ==
    /\ last.op \in {"operation", "normalize"}
    /\ last' = Call("normalize", last.ret, Normalize(last.ret), <<>>)
    /\ UNCHANGED <<registry, name, suppliers>>

ToJson ==
    /\ last.op = "request"
    /\ last' = Call("to_json", last.ret, SerializeRequest(last.ret), <<>>)
    /\ UNCHANGED <<registry, name, suppliers>>

FromJson ==
    /\ last.op \in {"wire", "to_json"}
    /\ last' = Call("from_json", last.ret, DeserializeRequest(last.ret), <<>>)
    /\ UNCHANGED <<registry, name, suppliers>>

NextModels ==
    \/ NormalizeCall
    \/ ToJson
    \/ FromJson

SpecModels == InitModels /\ [][NextModels]_vars

\* -------------------------------------- properties of normalize and serde
LastNormalize == last.op = "normalize"
LastNormalizeOther == LastNormalize /\ last.arg.variant = "Other"

\* C14: normalize returns Search for Search and GetDetail for GetDetail,
\* Other("submit_transaction") for Other("Submit Transaction"), and applied
\* to what it just returned it returns the same again.
OperationNormalization ==
    [][last'.op = "normalize" =>
            /\ last'.arg.variant \in {"Search", "GetDetail"} =>
                  /\ last'.ret.variant = last'.arg.variant
                  /\ last'.ret.other = NoDetail
            /\ (last'.arg.variant = "Other" /\ last'.arg.other = SubmitTransactionRaw) =>
                  /\ last'.ret.variant = "Other"
                  /\ last'.ret.other = SubmitTransactionNorm
            /\ last.op = "normalize" =>
                  /\ last'.ret.variant = last.ret.variant
                  /\ last'.ret.variant = "Other" => last'.ret.other = last.ret.other
      ]_vars

NormalizedAgainWitness ==
    /\ LastNormalizeOther
    /\ last.arg.other = SubmitTransactionNorm
    /\ last.ret.variant = "Other"
    /\ last.ret.other = SubmitTransactionNorm

\* t is s without the white space around it, position by position: an
\* underscore where s has a separator, the character of s where that is no
\* ASCII capital, and no separator anywhere.
Unified(s, t) ==
    LET inner == {i \in DOMAIN s : s[i] \notin Whitespace}
    IN  IF inner = {}
        THEN t = <<>>
        ELSE LET first == CHOOSE i \in inner : \A j \in inner : i <= j
                 lastIn == CHOOSE i \in inner : \A j \in inner : j <= i
             IN  /\ Len(t) = lastIn - first + 1
                 /\ \A i \in DOMAIN t :
                       LET c == s[first + i - 1]
                       IN  /\ t[i] \notin Separators
                           /\ c \in Separators => t[i] = "_"
                           /\ (c \notin Separators
                               /\ \A k \in DOMAIN AsciiUppercase : AsciiUppercase[k] # c)
                                 => t[i] = c

NoOuterWhitespace(t) == t # <<>> => (t[1] \notin Whitespace /\ t[Len(t)] \notin Whitespace)

Uppercase == {AsciiUppercase[k] : k \in DOMAIN AsciiUppercase} \cup {"U+00C9"}

RequestRoundTrip ==
    [][last'.op = "from_json" =>
            /\ last.op = "to_json" =>
                  /\ last'.ret.tag = "Ok"
                  /\ last'.ret.value = last.arg
            /\ (/\ last'.arg.t = "object"
                /\ {"operation", "params"} \subseteq DOMAIN last'.arg.v
                /\ last'.arg.v["operation"].t = "string"
                /\ last'.arg.v["operation"].v = "search") =>
                  /\ last'.ret.tag = "Ok"
                  /\ last'.ret.value.operation = Search
      ]_vars

RoundTripWitness ==
    /\ last.op = "from_json"
    /\ last.ret.tag = "Ok"
    /\ last.ret.value.operation = Other("search")
    /\ last.ret.value.params.t = "object"
    /\ last.ret.value.params.v = [keyword |-> JString("baju")]

====
